---- MODULE Spec2Model ----
(***************************************************************************)
(* Presence handling of the XMPP client (src/src/xmpp/presence.c).         *)
(*                                                                         *)
(* An inbound presence stanza is handed to every registered handler whose  *)
(* (namespace, type) filter matches it, in registration order.  Each       *)
(* handler is an operator on the record `s` of the state it reads and      *)
(* writes: the pending subscription table, the room registry, the          *)
(* capability cache, and the notifications and discovery queries emitted   *)
(* so far for the stanza being handled.                                    *)
(***************************************************************************)
EXTENDS Integers, Sequences, FiniteSets, TLC

VARIABLES
    sub_requests,   \* the GHashTable sub_requests: bare JID (key) -> value
    rooms,          \* the room registry (muc layer): room bare JID -> room record
    caps_cache,     \* the capability cache (external): set of cached keys
    crashed,        \* TRUE once the process has died (undefined behaviour ended in a fault)
    stanza,         \* the last inbound presence stanza handed to the handlers
    events,         \* notifications (prof_handle_*) emitted while handling `stanza`
    queries,        \* discovery IQs sent while handling `stanza`
    caps_key,       \* value returned by _get_caps_key while handling `stanza`
    sent,           \* the last presence stanza sent (subscription or room join)
    op,             \* the last operation performed
    sub_before,     \* sub_requests as it was before the last operation
    hist            \* per room, what happened since its record was last reset

vars == <<sub_requests, rooms, caps_cache, crashed, stanza, events, queries,
          caps_key, sent, op, sub_before, hist>>

----------------------------------------------------------------------------
(* Values *)

\* A char* is either the NULL pointer or a pointer to a string: NULL is the
\* empty tuple and Str(s) the one-element tuple of the string s, so that no
\* text, whatever its characters, is taken for an absent value.
NULL == <<>>

Str(s) == <<s>>

\* caps_key before _get_caps_key has been called for the stanza: neither
\* NULL nor a string.
NoCall == <<"no", "call">>

STANZA_NS_MUC_USER == Str("http://jabber.org/protocol/muc#user")

STANZA_TYPE_ERROR == Str("error")
STANZA_TYPE_UNAVAILABLE == Str("unavailable")
STANZA_TYPE_SUBSCRIBE == Str("subscribe")
STANZA_TYPE_SUBSCRIBED == Str("subscribed")
STANZA_TYPE_UNSUBSCRIBED == Str("unsubscribed")

PRESENCE_SUBSCRIBE == "subscribe"
PRESENCE_SUBSCRIBED == "subscribed"
PRESENCE_UNSUBSCRIBED == "unsubscribed"
PRESENCE_UNKNOWN == "unknown"

\* The local account's JID (xmpp_conn_get_jid / jabber_get_jid).
MyJid == [barejid |-> "me@example.com", resourcepart |-> "laptop"]

\* Bounds of the model.
MaxRosterComplete == 3

\* bare JID and resource joined by "/" (a bare JID when there is no resource).
create_fulljid(barejid, resourcepart) ==
    IF resourcepart = NULL THEN barejid ELSE barejid \o "/" \o resourcepart[1]

\* The "from" attribute of a stanza, as the string the handlers read.
FromAttr(st) == create_fulljid(st.from.barejid, st.from.resourcepart)

\* A stanza without a capability advertisement (<c/> child).
NoCaps == [present |-> FALSE, hash |-> NULL, str |-> NULL]

\* A stanza child (<show/>, <status/>, <priority/>) that is absent.  The
\* text of a child that is present is NULL when the element is empty.
NoChild == [present |-> FALSE, text |-> NULL]

\* A stanza child that is present, with its text.
Child(text) == [present |-> TRUE, text |-> text]

\* No member nick change is pending in a room.
NoPending == [set |-> FALSE, old_nick |-> NULL, new_nick |-> NULL]

\* A roster without occupants.
EmptyRoster == [n \in {} |-> n]

\* The record of a room that is not joined.
NoRoom ==
    [joined |-> FALSE, nick |-> NULL, roster_received |-> FALSE,
     occupants |-> EmptyRoster, pending_nick_change |-> NoPending,
     self_pending_nick_change |-> FALSE]

\* The record muc_join_room creates.
NewRoom(nick) == [NoRoom EXCEPT !.joined = TRUE, !.nick = nick]

NoHist == [roster_complete |-> 0, fresh_self |-> FALSE, fresh_self_ready |-> FALSE]

NoStanza ==
    [type |-> NULL, muc |-> FALSE, self |-> FALSE,
     from |-> [barejid |-> "", resourcepart |-> NULL],
     nick_change |-> FALSE, new_nick |-> NULL,
     show |-> NoChild, status |-> NoChild, priority |-> NoChild, idle |-> 0,
     caps |-> NoCaps]

NoSent == [type |-> NULL, to |-> ""]

----------------------------------------------------------------------------
(* Stanza accessors (xmpp/stanza.c) *)

stanza_is_muc_presence(st) == st.muc

stanza_is_muc_self_presence(st) == st.self

stanza_is_room_nick_change(st) == st.nick_change

stanza_get_new_nick(st) == st.new_nick

stanza_contains_caps(st) == st.caps.present

stanza_caps_get_hash(st) == st.caps.hash

stanza_get_caps_str(st) == st.caps.str

stanza_get_idle_time(st) == st.idle

stanza_create_disco_iq(id, to, node) == [id |-> id, to |-> to, node |-> node]

\* xmpp_send of a discovery IQ.
xmpp_send(s, iq) == [s EXCEPT !.queries = Append(@, iq)]

caps_contains(s, key) == key \in s.caps_cache

----------------------------------------------------------------------------
(* libc *)

Digits == <<"0", "1", "2", "3", "4", "5", "6", "7", "8", "9">>

IsDigit(c) == \E d \in 1..10 : Digits[d] = c

DigitValue(c) == (CHOOSE d \in 1..10 : Digits[d] = c) - 1

\* isspace in the "C" locale: space, \t, \n, \v, \f and \r.  TLA+ has no
\* escape for the vertical tab, so VT holds the character itself.
VT == ""

IsSpace(c) == c \in {" ", "\t", "\n", VT, "\f", "\r"}

\* A long (64 bits) is kept as four limbs of 16 bits, least significant
\* first, so that no intermediate value leaves the range of an int.
Limb == 65536

\* The limbs of a non-negative int.
Limbs(n) == <<n % Limb, n \div Limb, 0, 0>>

\* The magnitude acc.limbs times ten plus the digit d; acc.over is set once
\* the magnitude has reached 2^63 (strtol then clamps: ERANGE).
strtol_step(acc, d) ==
    LET t0 == acc.limbs[1] * 10 + d
        t1 == acc.limbs[2] * 10 + t0 \div Limb
        t2 == acc.limbs[3] * 10 + t1 \div Limb
        t3 == acc.limbs[4] * 10 + t2 \div Limb
    IN [limbs |-> <<t0 % Limb, t1 % Limb, t2 % Limb, t3 % Limb>>,
        over |-> acc.over \/ t3 \div Limb > 0 \/ t3 % Limb >= Limb \div 2]

\* strtol's digit loop: the magnitude of the longest prefix of digits of
\* text[i..], continuing from acc.
RECURSIVE strtol_digits(_, _, _)
strtol_digits(text, i, acc) ==
    IF i > Len(text) \/ ~IsDigit(text[i])
    THEN acc
    ELSE strtol_digits(text, i + 1, strtol_step(acc, DigitValue(text[i])))

\* The cast of a long to int: its low 32 bits, as a signed value.
int_cast(limbs) ==
    IF limbs[2] >= Limb \div 2
    THEN (limbs[2] - Limb) * Limb + limbs[1]
    ELSE limbs[2] * Limb + limbs[1]

\* The int -n in 32 bits (the least int is its own negation).
int_negate(n) == IF n = (0 - Limb \div 2) * Limb THEN n ELSE 0 - n

\* The int a non-negative number has after the leading digits of text[i..]
\* have been appended to acc: (int) of the long, LONG_MAX when out of range.
atoi_digits(text, i, acc) ==
    LET r == strtol_digits(text, i, [limbs |-> Limbs(acc), over |-> FALSE])
    IN IF r.over THEN 0 - 1 ELSE int_cast(r.limbs)

\* The index of the first character of text at or after i that is not
\* white space.
RECURSIVE atoi_skip(_, _)
atoi_skip(text, i) ==
    IF i <= Len(text) /\ IsSpace(text[i]) THEN atoi_skip(text, i + 1) ELSE i

\* atoi(text) is (int) strtol(text, NULL, 10): leading white space, an
\* optional sign, then the leading digits; 0 when there are none.  Out of
\* the range of a long the value is LONG_MAX or LONG_MIN, whose low 32 bits
\* are -1 and 0.  The text is a sequence of characters.
atoi(text) ==
    LET i == atoi_skip(text, 1)
        signed == i <= Len(text) /\ text[i] \in {"-", "+"}
        j == IF signed THEN i + 1 ELSE i
        r == strtol_digits(text, j, [limbs |-> Limbs(0), over |-> FALSE])
    IN IF signed /\ text[i] = "-"
       THEN IF r.over THEN 0 ELSE int_negate(int_cast(r.limbs))
       ELSE atoi_digits(text, j, 0)

\* strdup(str): copies a string.  strdup(NULL) is undefined behaviour; the
\* outcome `s.ub` is either a fault ("crash") or a NULL result ("null").
strdup(s, str) ==
    IF str = NULL
    THEN IF s.ub = "crash"
         THEN [s EXCEPT !.crashed = TRUE]
         ELSE [s EXCEPT !.caps_key = NULL]
    ELSE [s EXCEPT !.caps_key = str]

----------------------------------------------------------------------------
(* The room registry (muc layer) *)

muc_get_roster_received(s, room) == s.rooms[room].roster_received

muc_set_roster_received(s, room) ==
    [s EXCEPT !.rooms[room].roster_received = TRUE]

muc_is_room_pending_nick_change(s, room) ==
    s.rooms[room].self_pending_nick_change

muc_set_room_pending_nick_change(s, room) ==
    [s EXCEPT !.rooms[room].self_pending_nick_change = TRUE]

\* Applies the rename to the self occupant and clears the flag.
muc_complete_room_nick_change(s, room, nick) ==
    [s EXCEPT !.rooms[room].nick = nick,
              !.rooms[room].self_pending_nick_change = FALSE]

muc_nick_in_roster(s, room, nick) == nick \in DOMAIN s.rooms[room].occupants

\* Inserts the occupant entry for nick, or replaces the one it has.
muc_add_to_roster(s, room, nick, show, status, key) ==
    LET occ == s.rooms[room].occupants
        entry == [show |-> show, status |-> status, caps_key |-> key]
    IN [s EXCEPT !.rooms[room].occupants =
            [n \in DOMAIN occ \cup {nick} |-> IF n = nick THEN entry ELSE occ[n]]]

muc_remove_from_roster(s, room, nick) ==
    LET occ == s.rooms[room].occupants
    IN [s EXCEPT !.rooms[room].occupants = [n \in DOMAIN occ \ {nick} |-> occ[n]]]

\* Records the pending nick change {old_nick, new_nick} of a member.
muc_set_roster_pending_nick_change(s, room, new_nick, old_nick) ==
    [s EXCEPT !.rooms[room].pending_nick_change =
        [set |-> TRUE, old_nick |-> old_nick, new_nick |-> new_nick]]

\* The old nick of the pending nick change whose new nick is `nick`, or NULL.
muc_pending_old_nick(s, room, nick) ==
    LET p == s.rooms[room].pending_nick_change
    IN IF p.set /\ p.new_nick = nick THEN p.old_nick ELSE NULL

\* Completes the pending nick change whose new nick is `nick`, if there is
\* one: the entry of the old nick leaves the roster and the record is cleared.
muc_complete_roster_nick_change(s, room, nick) ==
    LET old_nick == muc_pending_old_nick(s, room, nick)
    IN IF old_nick = NULL
       THEN s
       ELSE [muc_remove_from_roster(s, room, old_nick)
                EXCEPT !.rooms[room].pending_nick_change = NoPending]

\* Tears the room record down.
muc_leave_room(s, room) == [s EXCEPT !.rooms[room] = NoRoom]

----------------------------------------------------------------------------
(* Notifications: the prof_handle functions *)

Emit(s, e) == [s EXCEPT !.events = Append(@, e)]

\* "subscription-request" for a subscribe, "subscription-resolved" otherwise.
prof_handle_subscription(s, barejid, kind) ==
    Emit(s, [name |-> IF kind = PRESENCE_SUBSCRIBE
                      THEN "subscription-request"
                      ELSE "subscription-resolved",
             jid |-> barejid, kind |-> kind])

prof_handle_contact_offline(s, barejid, resource, status) ==
    Emit(s, [name |-> "contact-offline", jid |-> barejid,
             resource |-> resource, status |-> status])

prof_handle_contact_online(s, barejid, resource, last_activity) ==
    Emit(s, [name |-> "contact-online", jid |-> barejid,
             resource |-> resource, last_activity |-> last_activity])

prof_handle_leave_room(s, room) ==
    muc_leave_room(Emit(s, [name |-> "room-left", room |-> room]), room)

prof_handle_room_nick_change(s, room, nick) ==
    Emit(s, [name |-> "room-nickname-changed", room |-> room, nick |-> nick])

prof_handle_room_roster_complete(s, room) ==
    muc_set_roster_received(
        Emit(s, [name |-> "room-roster-complete", room |-> room]), room)

prof_handle_room_member_offline(s, room, nick, show, status) ==
    Emit(s, [name |-> "room-member-offline", room |-> room, nick |-> nick,
             show |-> show, status |-> status])

prof_handle_room_member_nick_change(s, room, old_nick, nick) ==
    Emit(s, [name |-> "room-member-nickname-changed", room |-> room,
             old_nick |-> old_nick, nick |-> nick])

prof_handle_room_member_online(s, room, nick, show, status, key) ==
    muc_add_to_roster(
        Emit(s, [name |-> "room-member-online", room |-> room, nick |-> nick,
                 show |-> show, status |-> status, caps_key |-> key]),
        room, nick, show, status, key)

prof_handle_room_member_presence(s, room, nick, show, status, key) ==
    muc_add_to_roster(
        Emit(s, [name |-> "room-member-presence-updated", room |-> room,
                 nick |-> nick, show |-> show, status |-> status,
                 caps_key |-> key]),
        room, nick, show, status, key)

\* The presence kind a show text stands for; "online" for any other text.
resource_presence_from_string(str) ==
    IF str \in {Str("chat"), Str("away"), Str("xa"), Str("dnd")}
    THEN str[1]
    ELSE "online"

resource_new(name, presence, status, priority, key) ==
    [name |-> name, presence |-> presence, status |-> status,
     priority |-> priority, caps_key |-> key]

----------------------------------------------------------------------------
(* The hash table sub_requests (GHashTable): a function from keys to values *)

\* g_hash_table_new_full: a table without entries.
EmptyTable == [k \in {} |-> k]

g_hash_table_contains(tbl, key) == key \in DOMAIN tbl

\* Inserts (key, value); an entry with an equal key has its value replaced.
g_hash_table_insert(tbl, key, value) ==
    [k \in DOMAIN tbl \cup {key} |-> IF k = key THEN value ELSE tbl[k]]

\* Removes the entry of key, if there is one.
g_hash_table_remove(tbl, key) == [k \in DOMAIN tbl \ {key} |-> tbl[k]]

g_hash_table_remove_all(tbl) == EmptyTable

\* The lists of the elements of S, each once, in every order.
Orderings(S) ==
    {l \in [1..Cardinality(S) -> S] :
        \A i, j \in 1..Cardinality(S) : l[i] = l[j] => i = j}

\* The keys of the table as a list.  The order is that of the buckets,
\* which the table does not specify: every order is a possible result.
g_hash_table_get_keys(tbl) == Orderings(DOMAIN tbl)

----------------------------------------------------------------------------
(* Capability key resolver *)

\* CapsDiscover without the cache lookup: a present node is always queried.
CapsDiscover_NoCacheTest(s, key, id, from, node) ==
    IF node # NULL
    THEN xmpp_send(s, stanza_create_disco_iq(id, from, node))
    ELSE s

\* CapsDiscover keeping an in-flight record: the key it queries for counts
\* as cached from then on.
CapsDiscover_InFlight(s, key, id, from, node) ==
    IF node # NULL
    THEN IF ~caps_contains(s, key)
         THEN [xmpp_send(s, stanza_create_disco_iq(id, from, node))
                  EXCEPT !.caps_cache = @ \cup {key}]
         ELSE s
    ELSE s

\* The discovery IQ sent for `node` to `from` when `key` is not cached.
CapsDiscover(s, key, id, from, node) ==
    IF node # NULL
    THEN IF ~caps_contains(s, key)
         THEN xmpp_send(s, stanza_create_disco_iq(id, from, node))
         ELSE s
    ELSE s

\* _get_caps_key taking any hash for the supported one: the caps string is
\* the key whatever the algorithm.
_get_caps_key_AnyHash(s, st) ==
    LET from == FromAttr(st)
    IN IF stanza_contains_caps(st)
       THEN LET hash_type == stanza_caps_get_hash(st)
                node == stanza_get_caps_str(st)
            IN IF hash_type # NULL
               THEN strdup(CapsDiscover(s, node, "disco", from, node), node)
               ELSE [CapsDiscover(s, Str(from), "disco_" \o from, from, node)
                        EXCEPT !.caps_key = Str(from)]
       ELSE [s EXCEPT !.caps_key = NULL]

\* _get_caps_key naming every discovery IQ "disco".
_get_caps_key_FixedId(s, st) ==
    LET from == FromAttr(st)
    IN IF stanza_contains_caps(st)
       THEN LET hash_type == stanza_caps_get_hash(st)
                node == stanza_get_caps_str(st)
            IN IF hash_type # NULL
               THEN IF hash_type = Str("sha-1")
                    THEN strdup(CapsDiscover(s, node, "disco", from, node), node)
                    ELSE strdup(CapsDiscover(s, Str(from), "disco", from, node),
                                Str(from))
               ELSE [CapsDiscover(s, Str(from), "disco", from, node)
                        EXCEPT !.caps_key = Str(from)]
       ELSE [s EXCEPT !.caps_key = NULL]

\* The `caps_key` field of the result is the value returned.
_get_caps_key(s, st) ==
    LET from == FromAttr(st)
    IN IF stanza_contains_caps(st)
       THEN LET hash_type == stanza_caps_get_hash(st)
                node == stanza_get_caps_str(st)
            IN IF hash_type # NULL
               THEN IF hash_type = Str("sha-1")
                    \* supported hash: caps_key = node
                    THEN strdup(CapsDiscover(s, node, "disco", from, node), node)
                    \* unsupported hash: caps_key = from
                    ELSE strdup(CapsDiscover(s, Str(from), "disco_" \o from, from,
                                             node),
                                Str(from))
               \* legacy capabilities: caps_key = from
               ELSE [CapsDiscover(s, Str(from), "disco_" \o from, from, node)
                        EXCEPT !.caps_key = Str(from)]
       ELSE [s EXCEPT !.caps_key = NULL]

----------------------------------------------------------------------------
(* Handlers *)

\* The generic connection error handler: no part of the presence state.
connection_error_handler(s, st) == s

\* _unsubscribed_handler that notifies and leaves the table alone.
_unsubscribed_handler_NoRemove(s, st) ==
    prof_handle_subscription(s, st.from.barejid, PRESENCE_UNSUBSCRIBED)

_unsubscribed_handler(s, st) ==
    LET barejid == st.from.barejid
        s1 == prof_handle_subscription(s, barejid, PRESENCE_UNSUBSCRIBED)
    IN [s1 EXCEPT !.sub_requests = g_hash_table_remove(@, barejid)]

\* _subscribed_handler whose removal of an absent key empties the table.
_subscribed_handler_ResetIfAbsent(s, st) ==
    LET barejid == st.from.barejid
        s1 == prof_handle_subscription(s, barejid, PRESENCE_SUBSCRIBED)
    IN IF g_hash_table_contains(s.sub_requests, barejid)
       THEN [s1 EXCEPT !.sub_requests = g_hash_table_remove(@, barejid)]
       ELSE [s1 EXCEPT !.sub_requests = EmptyTable]

_subscribed_handler(s, st) ==
    LET barejid == st.from.barejid
        s1 == prof_handle_subscription(s, barejid, PRESENCE_SUBSCRIBED)
    IN [s1 EXCEPT !.sub_requests = g_hash_table_remove(@, barejid)]

\* _subscribe_handler recording the request under the full JID.
_subscribe_handler_FullJid(s, st) ==
    LET barejid == st.from.barejid
        s1 == prof_handle_subscription(s, barejid, PRESENCE_SUBSCRIBE)
    IN [s1 EXCEPT !.sub_requests =
            g_hash_table_insert(@, FromAttr(st), FromAttr(st))]

_subscribe_handler(s, st) ==
    LET barejid == st.from.barejid
        s1 == prof_handle_subscription(s, barejid, PRESENCE_SUBSCRIBE)
    IN [s1 EXCEPT !.sub_requests = g_hash_table_insert(@, barejid, barejid)]

_unavailable_handler(s, st) ==
    LET status_str == IF st.status.present THEN st.status.text ELSE NULL
    IN IF MyJid.barejid # st.from.barejid
       THEN prof_handle_contact_offline(s, st.from.barejid,
                                        st.from.resourcepart, status_str)
       ELSE s

\* _available_handler testing the sender against the local account before
\* it resolves the capability key.
_available_handler_GuardFirst(s, st) ==
    IF st.type = STANZA_TYPE_ERROR
    THEN s
    ELSE IF st.type \in {STANZA_TYPE_UNAVAILABLE, STANZA_TYPE_SUBSCRIBE,
                         STANZA_TYPE_SUBSCRIBED, STANZA_TYPE_UNSUBSCRIBED}
    THEN s
    ELSE IF stanza_is_muc_presence(st)
    THEN s
    ELSE IF MyJid.barejid = st.from.barejid
    THEN s
    ELSE LET s1 == _get_caps_key(s, st)
             idle_seconds == stanza_get_idle_time(st)
             last_activity == IF idle_seconds > 0
                              THEN [set |-> TRUE, ago |-> idle_seconds]
                              ELSE [set |-> FALSE, ago |-> 0]
             show_str == IF st.show.present THEN st.show.text ELSE Str("online")
             status_str == IF st.status.present THEN st.status.text ELSE NULL
             priority == IF st.priority.present /\ st.priority.text # NULL
                         THEN atoi(st.priority.text[1])
                         ELSE 0
         IN IF s1.crashed
            THEN s1
            ELSE prof_handle_contact_online(s1, st.from.barejid,
                     resource_new(st.from.resourcepart,
                                  resource_presence_from_string(show_str),
                                  status_str, priority, s1.caps_key),
                     last_activity)

_available_handler(s, st) ==
    IF st.type = STANZA_TYPE_ERROR
    THEN s
    ELSE IF st.type \in {STANZA_TYPE_UNAVAILABLE, STANZA_TYPE_SUBSCRIBE,
                         STANZA_TYPE_SUBSCRIBED, STANZA_TYPE_UNSUBSCRIBED}
    THEN s
    ELSE IF stanza_is_muc_presence(st)
    THEN s
    ELSE LET s1 == _get_caps_key(s, st)
             idle_seconds == stanza_get_idle_time(st)
             last_activity == IF idle_seconds > 0
                              THEN [set |-> TRUE, ago |-> idle_seconds]
                              ELSE [set |-> FALSE, ago |-> 0]
             show_str == IF st.show.present THEN st.show.text ELSE Str("online")
             status_str == IF st.status.present THEN st.status.text ELSE NULL
             priority == IF st.priority.present /\ st.priority.text # NULL
                         THEN atoi(st.priority.text[1])
                         ELSE 0
         IN IF s1.crashed
            THEN s1
            ELSE IF MyJid.barejid # st.from.barejid
                 THEN prof_handle_contact_online(s1, st.from.barejid,
                          resource_new(st.from.resourcepart,
                                       resource_presence_from_string(show_str),
                                       status_str, priority, s1.caps_key),
                          last_activity)
                 ELSE s1

\* RoomSelfPresence without the test of roster_received: every available
\* self-presence outside a rename reports the roster complete.
RoomSelfPresence_NoReceivedTest(s, st) ==
    LET room == st.from.barejid
        nick == st.from.resourcepart
        type == st.type
        nick_change == stanza_is_room_nick_change(st)
    IN IF type # NULL /\ type = STANZA_TYPE_UNAVAILABLE
       THEN IF nick_change
            THEN muc_set_room_pending_nick_change(s, room)
            ELSE prof_handle_leave_room(s, room)
       ELSE IF muc_is_room_pending_nick_change(s, room)
       THEN prof_handle_room_nick_change(
                muc_complete_room_nick_change(s, room, nick), room, nick)
       ELSE prof_handle_room_roster_complete(s, room)

\* RoomSelfPresence without the test of the nick-change marker: every
\* unavailable self-presence leaves the room.
RoomSelfPresence_NoNickChangeTest(s, st) ==
    LET room == st.from.barejid
        nick == st.from.resourcepart
        type == st.type
    IN IF type # NULL /\ type = STANZA_TYPE_UNAVAILABLE
       THEN prof_handle_leave_room(s, room)
       ELSE IF muc_is_room_pending_nick_change(s, room)
       THEN prof_handle_room_nick_change(
                muc_complete_room_nick_change(s, room, nick), room, nick)
       ELSE IF ~muc_get_roster_received(s, room)
       THEN prof_handle_room_roster_complete(s, room)
       ELSE s

\* RoomSelfPresence testing roster_received before the pending self nick
\* change.
RoomSelfPresence_RosterFirst(s, st) ==
    LET room == st.from.barejid
        nick == st.from.resourcepart
        type == st.type
        nick_change == stanza_is_room_nick_change(st)
    IN IF type # NULL /\ type = STANZA_TYPE_UNAVAILABLE
       THEN IF nick_change
            THEN muc_set_room_pending_nick_change(s, room)
            ELSE prof_handle_leave_room(s, room)
       ELSE IF ~muc_get_roster_received(s, room)
       THEN prof_handle_room_roster_complete(s, room)
       ELSE IF muc_is_room_pending_nick_change(s, room)
       THEN prof_handle_room_nick_change(
                muc_complete_room_nick_change(s, room, nick), room, nick)
       ELSE s

\* RoomSelfPresence taking the nick of every steady-state self-presence for
\* the user's nick in the room.
RoomSelfPresence_SteadyRename(s, st) ==
    LET room == st.from.barejid
        nick == st.from.resourcepart
        type == st.type
        nick_change == stanza_is_room_nick_change(st)
    IN IF type # NULL /\ type = STANZA_TYPE_UNAVAILABLE
       THEN IF nick_change
            THEN muc_set_room_pending_nick_change(s, room)
            ELSE prof_handle_leave_room(s, room)
       ELSE IF muc_is_room_pending_nick_change(s, room)
       THEN prof_handle_room_nick_change(
                muc_complete_room_nick_change(s, room, nick), room, nick)
       ELSE IF ~muc_get_roster_received(s, room)
       THEN prof_handle_room_roster_complete(s, room)
       ELSE muc_complete_room_nick_change(s, room, nick)

\* Presence of the local user's own occupant of the room.
RoomSelfPresence(s, st) ==
    LET room == st.from.barejid
        nick == st.from.resourcepart
        type == st.type
        nick_change == stanza_is_room_nick_change(st)
    IN IF type # NULL /\ type = STANZA_TYPE_UNAVAILABLE
       THEN IF nick_change
            THEN muc_set_room_pending_nick_change(s, room)
            ELSE prof_handle_leave_room(s, room)
       ELSE IF muc_is_room_pending_nick_change(s, room)
       THEN prof_handle_room_nick_change(
                muc_complete_room_nick_change(s, room, nick), room, nick)
       ELSE IF ~muc_get_roster_received(s, room)
       THEN prof_handle_room_roster_complete(s, room)
       ELSE s

\* RoomMemberPresence completing a pending nick change during the initial
\* burst as well.
RoomMemberPresence_BurstCompletes(s, st) ==
    LET room == st.from.barejid
        nick == st.from.resourcepart
        type == st.type
        s1 == _get_caps_key(s, st)
        key == s1.caps_key
        status_str == IF st.status.present THEN st.status.text ELSE NULL
        show_str == IF st.show.present THEN st.show.text ELSE Str("online")
        old_nick == muc_pending_old_nick(s1, room, nick)
        s2 == muc_complete_roster_nick_change(s1, room, nick)
    IN IF s1.crashed
       THEN s1
       ELSE IF type # NULL /\ type = STANZA_TYPE_UNAVAILABLE
       THEN IF stanza_is_room_nick_change(st)
            THEN muc_set_roster_pending_nick_change(
                     s1, room, stanza_get_new_nick(st), nick)
            ELSE prof_handle_room_member_offline(s1, room, nick, Str("offline"),
                                                 status_str)
       ELSE IF ~muc_get_roster_received(s1, room)
       THEN muc_add_to_roster(s2, room, nick, show_str, status_str, key)
       ELSE IF old_nick # NULL
       THEN prof_handle_room_member_nick_change(
                muc_add_to_roster(s2, room, nick, show_str, status_str, key),
                room, old_nick, nick)
       ELSE IF ~muc_nick_in_roster(s2, room, nick)
       THEN prof_handle_room_member_online(s2, room, nick, show_str,
                                           status_str, key)
       ELSE prof_handle_room_member_presence(s2, room, nick, show_str,
                                             status_str, key)

\* Presence of any other occupant of the room.
RoomMemberPresence(s, st) ==
    LET room == st.from.barejid
        nick == st.from.resourcepart
        type == st.type
        s1 == _get_caps_key(s, st)
        key == s1.caps_key
        status_str == IF st.status.present THEN st.status.text ELSE NULL
        show_str == IF st.show.present THEN st.show.text ELSE Str("online")
    IN IF s1.crashed
       THEN s1
       ELSE IF type # NULL /\ type = STANZA_TYPE_UNAVAILABLE
       THEN IF stanza_is_room_nick_change(st)
            THEN muc_set_roster_pending_nick_change(
                     s1, room, stanza_get_new_nick(st), nick)
            ELSE prof_handle_room_member_offline(s1, room, nick, Str("offline"),
                                                 status_str)
       ELSE IF ~muc_get_roster_received(s1, room)
       THEN muc_add_to_roster(s1, room, nick, show_str, status_str, key)
       ELSE LET old_nick == muc_pending_old_nick(s1, room, nick)
                s2 == muc_complete_roster_nick_change(s1, room, nick)
            IN IF old_nick # NULL
               THEN prof_handle_room_member_nick_change(
                        muc_add_to_roster(s2, room, nick, show_str, status_str,
                                          key),
                        room, old_nick, nick)
               ELSE IF ~muc_nick_in_roster(s2, room, nick)
               THEN prof_handle_room_member_online(s2, room, nick, show_str,
                                                   status_str, key)
               ELSE prof_handle_room_member_presence(s2, room, nick, show_str,
                                                     status_str, key)

\* _room_presence_handler without the early return for error stanzas.
_room_presence_handler_NoErrorTest(s, st) ==
    IF stanza_is_muc_self_presence(st)
    THEN RoomSelfPresence(s, st)
    ELSE RoomMemberPresence(s, st)

_room_presence_handler(s, st) ==
    IF st.type = STANZA_TYPE_ERROR
    THEN s
    ELSE IF stanza_is_muc_self_presence(st)
         THEN RoomSelfPresence(s, st)
         ELSE RoomMemberPresence(s, st)

----------------------------------------------------------------------------
(* Dispatch *)

\* The handlers presence_add_handlers registers, in registration order.
Handlers ==
    << [ns |-> NULL, type |-> STANZA_TYPE_ERROR, func |-> "connection_error_handler"],
       [ns |-> STANZA_NS_MUC_USER, type |-> NULL, func |-> "_room_presence_handler"],
       [ns |-> NULL, type |-> STANZA_TYPE_UNAVAILABLE, func |-> "_unavailable_handler"],
       [ns |-> NULL, type |-> STANZA_TYPE_SUBSCRIBE, func |-> "_subscribe_handler"],
       [ns |-> NULL, type |-> STANZA_TYPE_SUBSCRIBED, func |-> "_subscribed_handler"],
       [ns |-> NULL, type |-> STANZA_TYPE_UNSUBSCRIBED, func |-> "_unsubscribed_handler"],
       [ns |-> NULL, type |-> NULL, func |-> "_available_handler"] >>

\* A handler registered for (ns, type) is called for a stanza when each of the
\* two is NULL or matches the stanza.
HandlerMatches(h, st) ==
    /\ h.ns = NULL \/ (h.ns = STANZA_NS_MUC_USER /\ stanza_is_muc_presence(st))
    /\ h.type = NULL \/ h.type = st.type

CallHandler(func, s, st) ==
    CASE func = "connection_error_handler" -> connection_error_handler(s, st)
      [] func = "_room_presence_handler" -> _room_presence_handler(s, st)
      [] func = "_unavailable_handler" -> _unavailable_handler(s, st)
      [] func = "_subscribe_handler" -> _subscribe_handler(s, st)
      [] func = "_subscribed_handler" -> _subscribed_handler(s, st)
      [] func = "_unsubscribed_handler" -> _unsubscribed_handler(s, st)
      [] func = "_available_handler" -> _available_handler(s, st)

\* Every matching handler from the i-th on runs, until the process dies.
RECURSIVE FireHandlers(_, _, _)
FireHandlers(s, st, i) ==
    IF i > Len(Handlers) \/ s.crashed
    THEN s
    ELSE IF HandlerMatches(Handlers[i], st)
         THEN FireHandlers(CallHandler(Handlers[i].func, s, st), st, i + 1)
         ELSE FireHandlers(s, st, i + 1)

----------------------------------------------------------------------------
(* The parties of the model *)

Room == "room@conference.example.com"

Lounge == "lounge@conference.example.com"

Rooms == {Room, Lounge}

Carol == "carol@example.com"

Dave == "dave@example.com"

\* Outcomes of the undefined behaviour of strdup(NULL): a fault, or a NULL
\* result.
UB == {"crash", "null"}

\* The outcomes to tell apart for stanza st: strdup is handed NULL only when
\* the caps string is absent, and for any other stanza the choice changes
\* nothing.
Outcomes(st) == IF stanza_get_caps_str(st) = NULL THEN UB ELSE {"null"}

\* A capability advertisement with hash attribute `hash` and caps string `str`.
Caps(hash, str) == [present |-> TRUE, hash |-> hash, str |-> str]

Jid(barejid, resourcepart) == [barejid |-> barejid, resourcepart |-> resourcepart]

\* A presence stanza without the multi-user-chat user extension.
DirectStanza(type, from, show, status, priority, idle, caps) ==
    [type |-> type, muc |-> FALSE, self |-> FALSE, from |-> from,
     nick_change |-> FALSE, new_nick |-> NULL,
     show |-> show, status |-> status, priority |-> priority, idle |-> idle,
     caps |-> caps]

\* A presence stanza with the multi-user-chat user extension.
MucStanza(type, from, self, nick_change, new_nick, show, status, caps) ==
    [type |-> type, muc |-> TRUE, self |-> self, from |-> from,
     nick_change |-> nick_change, new_nick |-> new_nick,
     show |-> show, status |-> status, priority |-> NoChild, idle |-> 0,
     caps |-> caps]

----------------------------------------------------------------------------
(* Operations *)

Init ==
    /\ sub_requests = EmptyTable
    /\ rooms = [r \in Rooms |-> NoRoom]
    /\ caps_cache = {}
    /\ crashed = FALSE
    /\ stanza = NoStanza
    /\ events = <<>>
    /\ queries = <<>>
    /\ caps_key = NoCall
    /\ sent = NoSent
    /\ op = "init"
    /\ sub_before = EmptyTable
    /\ hist = [r \in Rooms |-> NoHist]

\* The number of notifications `name` for `room` among es.
CountRoomEvents(es, name, room) ==
    Cardinality({i \in 1..Len(es) : es[i].name = name /\ es[i].room = room})

\* The lesser of two numbers.
Min(a, b) == IF a <= b THEN a ELSE b

\* What has happened in room r since its record was last started anew (by a
\* join) or torn down (by a room-left notification), once st has been handled
\* with notifications es.  The count stops at MaxRosterComplete.
HistAfter(r, st, es) ==
    LET fresh == /\ stanza_is_muc_presence(st)
                 /\ st.from.barejid = r
                 /\ stanza_is_muc_self_presence(st)
                 /\ st.type = NULL
                 /\ ~rooms[r].roster_received
    IN IF CountRoomEvents(es, "room-left", r) > 0
       THEN NoHist
       ELSE [roster_complete |->
                Min(hist[r].roster_complete
                        + CountRoomEvents(es, "room-roster-complete", r),
                    MaxRosterComplete),
             fresh_self |-> hist[r].fresh_self \/ fresh,
             fresh_self_ready |->
                hist[r].fresh_self_ready
                    \/ (fresh /\ ~rooms[r].self_pending_nick_change)]

\* The transport hands stanza st to the registered handlers, whatever the
\* state of the room it names.
Deliver(st, ub) ==
    /\ ~crashed
    /\ LET s0 == [sub_requests |-> sub_requests, rooms |-> rooms,
                  caps_cache |-> caps_cache, events |-> <<>>, queries |-> <<>>,
                  caps_key |-> NoCall, crashed |-> FALSE, ub |-> ub]
           s1 == FireHandlers(s0, st, 1)
       IN /\ sub_requests' = s1.sub_requests
          /\ rooms' = s1.rooms
          /\ crashed' = s1.crashed
          /\ events' = s1.events
          /\ queries' = s1.queries
          /\ caps_key' = s1.caps_key
          /\ caps_cache' = s1.caps_cache
          /\ hist' = [r \in Rooms |-> HistAfter(r, st, s1.events)]
    /\ stanza' = st
    /\ op' = "deliver"
    /\ sub_before' = sub_requests
    /\ UNCHANGED sent

\* presence_join_room(jid), jid being room/nick: the join presence is sent to
\* the full JID and muc_join_room starts the room record anew, whether or not
\* the room is joined already.  A jid without resource has no full JID and
\* the assertion on it aborts the process.
presence_join_room(room, nick) ==
    /\ ~crashed
    /\ IF nick = NULL
       THEN /\ crashed' = TRUE
            /\ UNCHANGED <<rooms, hist, sent>>
       ELSE /\ sent' = [type |-> NULL, to |-> create_fulljid(room, nick)]
            /\ rooms' = [rooms EXCEPT ![room] = NewRoom(nick)]
            /\ hist' = [hist EXCEPT ![room] = NoHist]
            /\ UNCHANGED crashed
    /\ op' = "join"
    /\ sub_before' = sub_requests
    /\ UNCHANGED <<sub_requests, caps_cache, stanza, events, queries, caps_key>>

\* The stanza type presence_subscription sends for an action.
SubscriptionType(action) ==
    CASE action = PRESENCE_SUBSCRIBE -> STANZA_TYPE_SUBSCRIBE
      [] action = PRESENCE_SUBSCRIBED -> STANZA_TYPE_SUBSCRIBED
      [] action = PRESENCE_UNSUBSCRIBED -> STANZA_TYPE_UNSUBSCRIBED
      [] OTHER -> NULL

\* presence_subscription that touches the table only for the actions it
\* knows.
presence_subscription_KnownOnly(jid, action) ==
    /\ ~crashed
    /\ sub_requests' = IF SubscriptionType(action) = NULL
                       THEN sub_requests
                       ELSE g_hash_table_remove(sub_requests, jid.barejid)
    /\ sent' = [type |-> SubscriptionType(action), to |-> jid.barejid]
    /\ op' = "subscription"
    /\ sub_before' = sub_requests
    /\ UNCHANGED <<rooms, caps_cache, crashed, stanza, events, queries,
                   caps_key, hist>>

presence_subscription(jid, action) ==
    /\ ~crashed
    /\ sub_requests' = g_hash_table_remove(sub_requests, jid.barejid)
    /\ sent' = [type |-> SubscriptionType(action), to |-> jid.barejid]
    /\ op' = "subscription"
    /\ sub_before' = sub_requests
    /\ UNCHANGED <<rooms, caps_cache, crashed, stanza, events, queries,
                   caps_key, hist>>

presence_get_subscription_requests == g_hash_table_get_keys(sub_requests)

presence_free_sub_requests ==
    /\ ~crashed
    /\ sub_requests' = g_hash_table_remove_all(sub_requests)
    /\ op' = "free"
    /\ sub_before' = sub_requests
    /\ UNCHANGED <<rooms, caps_cache, crashed, stanza, events, queries,
                   caps_key, sent, hist>>

\* The capability cache gains a key once its discovery response is processed.
CapsCacheInsert(key) ==
    /\ ~crashed
    /\ key \notin caps_cache
    /\ caps_cache' = caps_cache \cup {key}
    /\ op' = "cache"
    /\ sub_before' = sub_requests
    /\ UNCHANGED <<sub_requests, rooms, crashed, stanza, events, queries,
                   caps_key, sent, hist>>

\* The roster store removes the occupant a "room member offline" notification
\* of the last stanza names.
RosterStoreRemove ==
    /\ ~crashed
    /\ \E i \in 1..Len(events) :
          /\ events[i].name = "room-member-offline"
          /\ events[i].nick \in DOMAIN rooms[events[i].room].occupants
          /\ LET s0 == [rooms |-> rooms]
             IN rooms' = muc_remove_from_roster(s0, events[i].room,
                                                events[i].nick).rooms
    /\ op' = "roster_remove"
    /\ sub_before' = sub_requests
    /\ UNCHANGED <<sub_requests, caps_cache, crashed, stanza, events, queries,
                   caps_key, sent, hist>>

----------------------------------------------------------------------------
(* Specifications *)

Types == {NULL, STANZA_TYPE_UNAVAILABLE, STANZA_TYPE_SUBSCRIBE,
          STANZA_TYPE_SUBSCRIBED, STANZA_TYPE_UNSUBSCRIBED, STANZA_TYPE_ERROR}

SubscriptionTypes ==
    {STANZA_TYPE_SUBSCRIBE, STANZA_TYPE_SUBSCRIBED, STANZA_TYPE_UNSUBSCRIBED}

\* An advertisement with the supported hash and no caps string, and one with.
BadCaps == Caps(Str("sha-1"), NULL)

GoodCaps == Caps(Str("sha-1"), Str("v1"))

\* Stanzas of every type, with and without the multi-user-chat extension;
\* with and without an advertisement where the type is one a handler reads
\* it for, or the error type.
DispatchStanzas ==
    {DirectStanza(NULL, Jid(bare, Str("phone")), NoChild, NoChild, NoChild, 0,
                  caps) :
        bare \in {MyJid.barejid, Carol}, caps \in {NoCaps, BadCaps}}
    \cup
    {DirectStanza(STANZA_TYPE_UNAVAILABLE, Jid(MyJid.barejid, Str("phone")),
                  NoChild, NoChild, NoChild, 0, NoCaps)}
    \cup
    {DirectStanza(type, Jid(Carol, Str("phone")), NoChild, NoChild, NoChild, 0,
                  NoCaps) :
        type \in Types}
    \cup
    {MucStanza(type, Jid(Room, Str("alice")), self, FALSE, NULL, NoChild,
               NoChild, caps) :
        type \in {NULL, STANZA_TYPE_UNAVAILABLE, STANZA_TYPE_ERROR},
        self \in BOOLEAN, caps \in {NoCaps, BadCaps}}
    \cup
    {MucStanza(type, Jid(Room, Str("alice")), self, FALSE, NULL, NoChild,
               NoChild, NoCaps) :
        type \in SubscriptionTypes, self \in BOOLEAN}
    \cup
    {MucStanza(STANZA_TYPE_UNAVAILABLE, Jid(Room, Str("alice")), self, TRUE,
               Str("alice2"), NoChild, NoChild, NoCaps) : self \in BOOLEAN}

DeliverDispatch ==
    \E st \in DispatchStanzas : \E ub \in Outcomes(st) : Deliver(st, ub)

\* The nicknames a room is joined under: one, and none (a jid without
\* resource).
JoinNicks == {Str("me"), NULL}

JoinRoom == \E nick \in JoinNicks : presence_join_room(Room, nick)

Next ==
    \/ DeliverDispatch
    \/ JoinRoom
    \/ RosterStoreRemove

Spec == Init /\ [][Next]_vars

RoomNicks == {Str("alice"), Str("alice2")}

\* Multi-user-chat presence of one room: self and member presence, available
\* and unavailable, with and without the nick-change marker.
RoomStanzas ==
    {MucStanza(type, Jid(Room, nick), self, FALSE, NULL, NoChild, NoChild,
               caps) :
        type \in {NULL, STANZA_TYPE_UNAVAILABLE}, nick \in RoomNicks,
        self \in BOOLEAN, caps \in {NoCaps, BadCaps}}
    \cup
    {MucStanza(STANZA_TYPE_UNAVAILABLE, Jid(Room, nick), self, TRUE, new_nick,
               NoChild, NoChild, NoCaps) :
        nick \in RoomNicks, self \in BOOLEAN, new_nick \in RoomNicks \cup {NULL}}

DeliverRoom ==
    \E st \in RoomStanzas : \E ub \in Outcomes(st) : Deliver(st, ub)

NextRoom ==
    \/ DeliverRoom
    \/ JoinRoom
    \/ RosterStoreRemove

SpecRoom == Init /\ [][NextRoom]_vars

\* Capability advertisements: none, or a hash attribute (absent, supported,
\* unsupported) with a caps string (absent or one of two, the second being
\* the text "NULL").
CapsVariants ==
    {NoCaps} \cup {Caps(hash, str) : hash \in {NULL, Str("sha-1"), Str("md5")},
                                     str \in {NULL, Str("v1"), Str("NULL")}}

\* Available presence of two contacts and of a room member, with every
\* capability advertisement.
CapsStanzas ==
    {DirectStanza(NULL, from, NoChild, NoChild, NoChild, 0, caps) :
        from \in {Jid(Carol, Str("phone")), Jid(Dave, Str("desk"))}, caps \in CapsVariants}
    \cup
    {MucStanza(NULL, Jid(Room, Str("alice")), FALSE, FALSE, NULL, NoChild,
               NoChild, caps) :
        caps \in CapsVariants}

\* The keys the capability cache may come to hold.
CacheKeys ==
    {Str("v1"), Str(create_fulljid(Carol, Str("phone"))),
     Str(create_fulljid(Room, Str("alice")))}

DeliverCaps ==
    \E st \in CapsStanzas : \E ub \in Outcomes(st) : Deliver(st, ub)

CacheInsert == \E key \in CacheKeys : CapsCacheInsert(key)

NextCaps ==
    \/ DeliverCaps
    \/ JoinRoom
    \/ CacheInsert

SpecCaps == Init /\ [][NextCaps]_vars

\* The senders of subscription stanzas: two accounts, with and without a
\* resource.
SubscriptionJids ==
    {Jid(bare, res) : bare \in {Carol, Dave}, res \in {NULL, Str("phone"), Str("desk")}}

SubscriptionStanzas ==
    {DirectStanza(type, from, NoChild, NoChild, NoChild, 0, NoCaps) :
        type \in SubscriptionTypes, from \in SubscriptionJids}

DeliverSubscription ==
    \E st \in SubscriptionStanzas : \E ub \in Outcomes(st) : Deliver(st, ub)

SendSubscription ==
    \E jid \in SubscriptionJids :
        \E action \in {PRESENCE_SUBSCRIBE, PRESENCE_SUBSCRIBED,
                       PRESENCE_UNSUBSCRIBED, PRESENCE_UNKNOWN} :
            presence_subscription(jid, action)

NextSub ==
    \/ DeliverSubscription
    \/ SendSubscription
    \/ presence_free_sub_requests

SpecSub == Init /\ [][NextSub]_vars

\* Presence of the room's members "bob" and "bob2" with and without show
\* (absent, empty, "away"), status and advertisement, "bob" with the show
\* text "NULL", the nick change of "bob" to "bob2", and the self-presence
\* that ends the initial burst.
MemberStanzas ==
    {MucStanza(NULL, Jid(Room, Str("me")), TRUE, FALSE, NULL, NoChild, NoChild,
               NoCaps)}
    \cup
    {MucStanza(NULL, Jid(Room, Str("bob")), FALSE, FALSE, NULL, show, status,
               caps) :
        show \in {NoChild, Child(NULL), Child(Str("away"))},
        status \in {NoChild, Child(Str("brb"))},
        caps \in {NoCaps, BadCaps, GoodCaps}}
    \cup
    {MucStanza(NULL, Jid(Room, Str("bob")), FALSE, FALSE, NULL,
               Child(Str("NULL")), NoChild, NoCaps)}
    \cup
    {MucStanza(NULL, Jid(Room, Str("bob2")), FALSE, FALSE, NULL, NoChild,
               NoChild, caps) :
        caps \in {NoCaps, BadCaps}}
    \cup
    {MucStanza(STANZA_TYPE_UNAVAILABLE, Jid(Room, Str("bob")), FALSE, marker,
               IF marker THEN Str("bob2") ELSE NULL, NoChild, status, caps) :
        marker \in BOOLEAN, status \in {NoChild, Child(Str("gone"))},
        caps \in {NoCaps, BadCaps}}

DeliverMember ==
    \E st \in MemberStanzas : \E ub \in Outcomes(st) : Deliver(st, ub)

NextMember ==
    \/ DeliverMember
    \/ JoinRoom
    \/ RosterStoreRemove

SpecMember == Init /\ [][NextMember]_vars

\* A <priority/> child with the given text (a sequence of characters).
Priority(text) == Child(Str(text))

\* Priority children: absent, empty, a number, a negative number, text that
\* is no number, a number followed by other text, a number after white
\* space, and a number beyond the range of an int.
PriorityChildren ==
    {NoChild, Child(NULL), Priority(<<"5">>), Priority(<<"-", "1">>),
     Priority(<<"a", "b">>), Priority(<<"1", "2", "x">>),
     Priority(<<"\t", "5">>),
     Priority(<<"2", "1", "4", "7", "4", "8", "3", "6", "4", "8">>)}

\* Available direct presence of a contact and of another resource of the
\* local account: with and without show (absent, empty, "away"), status,
\* idle time and advertisement, and with every priority child.
DirectStanzas ==
    {DirectStanza(NULL, from, show, status, NoChild, idle, caps) :
        from \in {Jid(Carol, Str("phone")), Jid(MyJid.barejid, Str("tablet"))},
        show \in {NoChild, Child(NULL), Child(Str("away"))},
        status \in {NoChild, Child(Str("brb"))},
        idle \in {0, 60},
        caps \in {NoCaps, BadCaps, GoodCaps}}
    \cup
    {DirectStanza(NULL, from, NoChild, NoChild, priority, 0, caps) :
        from \in {Jid(Carol, Str("phone")), Jid(MyJid.barejid, Str("tablet"))},
        priority \in PriorityChildren,
        caps \in {NoCaps, GoodCaps}}

DeliverDirect ==
    \E st \in DirectStanzas : \E ub \in Outcomes(st) : Deliver(st, ub)

\* The capability cache comes to hold the caps string of GoodCaps.
CacheInsertDirect == CapsCacheInsert(GoodCaps.str)

NextDirect ==
    \/ DeliverDirect
    \/ CacheInsertDirect

SpecDirect == Init /\ [][NextDirect]_vars

\* Multi-user-chat presence of two rooms: in each, the self-presence that
\* ends the burst or leaves the room, the member "alice" with and without an
\* advertisement, and her nick change to "alice2".
RoomsStanzas ==
    {MucStanza(type, Jid(room, Str("me")), TRUE, FALSE, NULL, NoChild, NoChild,
               NoCaps) :
        type \in {NULL, STANZA_TYPE_UNAVAILABLE}, room \in Rooms}
    \cup
    {MucStanza(NULL, Jid(room, Str("alice")), FALSE, FALSE, NULL, NoChild,
               NoChild, caps) :
        room \in Rooms, caps \in {NoCaps, BadCaps}}
    \cup
    {MucStanza(STANZA_TYPE_UNAVAILABLE, Jid(room, Str("alice")), FALSE, TRUE,
               Str("alice2"), NoChild, NoChild, NoCaps) : room \in Rooms}
    \cup
    {MucStanza(NULL, Jid(room, Str("alice2")), FALSE, FALSE, NULL, NoChild,
               NoChild, NoCaps) : room \in Rooms}

DeliverRooms ==
    \E st \in RoomsStanzas : \E ub \in Outcomes(st) : Deliver(st, ub)

JoinRooms ==
    \E room \in Rooms : \E nick \in JoinNicks : presence_join_room(room, nick)

NextRooms ==
    \/ DeliverRooms
    \/ JoinRooms

SpecRooms == Init /\ [][NextRooms]_vars

----------------------------------------------------------------------------
(* Properties *)

\* The number of notifications among es whose name is in names.
CountEvents(es, names) ==
    Cardinality({i \in 1..Len(es) : es[i].name \in names})

ContactEvents == {"contact-online", "contact-offline"}

SubscriptionEvents == {"subscription-request", "subscription-resolved"}

\* C1 as stated: in every room, once an available self-presence has arrived
\* while roster_received was false, exactly one room-roster-complete has been
\* emitted since the join, and roster_received stays true from then on.
C1_RosterCompleteOnce ==
    \A r \in Rooms :
        /\ hist[r].fresh_self => hist[r].roster_complete = 1
        /\ rooms[r].roster_received <=> hist[r].roster_complete = 1

\* C1 as amended: in every room at most one room-roster-complete is emitted
\* per join; exactly one has been emitted once an available self-presence has
\* arrived while roster_received was false and no self nick change was
\* pending; roster_received is true from that notification on.
C1_RosterCompleteOnceReady ==
    \A r \in Rooms :
        /\ hist[r].roster_complete <= 1
        /\ hist[r].fresh_self_ready => hist[r].roster_complete = 1
        /\ rooms[r].roster_received <=> hist[r].roster_complete = 1

\* A later available self-presence in a room whose roster is complete: it
\* emitted nothing and the count is still one.
C1_Witness ==
    /\ op = "deliver"
    /\ stanza.muc /\ stanza.self /\ stanza.type = NULL
    /\ events = <<>>
    /\ rooms[stanza.from.barejid].joined
    /\ rooms[stanza.from.barejid].roster_received
    /\ hist[stanza.from.barejid].fresh_self_ready
    /\ hist[stanza.from.barejid].roster_complete = 1

\* C2 as stated: in a room whose roster has been received and holds "alice",
\* the member stanza (unavailable, nick change to "alice2") emits no
\* room-member-offline or room-member-online, and the member stanza
\* (available, "alice2") that follows it emits exactly one
\* room-member-nickname-changed(alice, alice2) and no offline or online, and
\* leaves "alice2" in the roster, "alice" out of it and no nick change pending.
C2_NickChangeRoundTrip ==
    [][ ( /\ op = "deliver"
          /\ stanza.muc /\ ~stanza.self
          /\ stanza.type = STANZA_TYPE_UNAVAILABLE
          /\ stanza.nick_change /\ stanza.new_nick = Str("alice2")
          /\ stanza.from = Jid(Room, Str("alice"))
          /\ rooms[Room].joined /\ rooms[Room].roster_received
          /\ Str("alice") \in DOMAIN rooms[Room].occupants
          /\ op' = "deliver"
          /\ stanza'.muc /\ ~stanza'.self
          /\ stanza'.type = NULL
          /\ stanza'.from = Jid(Room, Str("alice2")) )
        =>
        ( /\ CountEvents(events, {"room-member-offline", "room-member-online"}) = 0
          /\ CountEvents(events', {"room-member-offline", "room-member-online"}) = 0
          /\ CountEvents(events', {"room-member-nickname-changed"}) = 1
          /\ \E i \in 1..Len(events') :
                events'[i] = [name |-> "room-member-nickname-changed",
                              room |-> Room, old_nick |-> Str("alice"),
                              nick |-> Str("alice2")]
          /\ Str("alice2") \in DOMAIN rooms'[Room].occupants
          /\ Str("alice") \notin DOMAIN rooms'[Room].occupants
          /\ ~rooms'[Room].pending_nick_change.set ) ]_vars

\* C3 as stated: a stanza with the multi-user-chat extension whose type is not
\* error emits no contact or subscription notification and leaves the pending
\* subscription table as it was.
C3_MucOnlyRoomHandler ==
    [][ (op' = "deliver" /\ stanza'.muc /\ stanza'.type # STANZA_TYPE_ERROR)
        =>
        ( /\ CountEvents(events', ContactEvents \cup SubscriptionEvents) = 0
          /\ sub_requests' = sub_requests ) ]_vars

\* C4 as stated: the handlers that fire for one stanza emit at most one
\* notification between them.
C4_AtMostOneEvent == op = "deliver" => Len(events) <= 1

\* C5 as stated: a direct stanza, available or unavailable, emits no
\* contact-online and no contact-offline when its sender's bare JID is the
\* local one, and otherwise exactly one contact-online (available) or exactly
\* one contact-offline (unavailable).
C5_SelfPresenceGuard ==
    (op = "deliver" /\ ~stanza.muc
        /\ stanza.type \in {NULL, STANZA_TYPE_UNAVAILABLE})
    =>
    LET online == CountEvents(events, {"contact-online"})
        offline == CountEvents(events, {"contact-offline"})
    IN IF stanza.from.barejid = MyJid.barejid
       THEN online = 0 /\ offline = 0
       ELSE IF stanza.type = NULL
            THEN online = 1 /\ offline = 0
            ELSE online = 0 /\ offline = 1

\* The set of the elements of a sequence.
Range(seq) == {seq[i] : i \in 1..Len(seq)}

\* The bare JIDs on the lists presence_get_subscription_requests may return.
PendingJids == UNION {Range(list) : list \in presence_get_subscription_requests}

\* The resolver was called for the last stanza and returned.
Resolved == op = "deliver" /\ caps_key # NoCall

\* C6: when the key the resolver returns is in the cache, the stanza sends no
\* discovery IQ; and of two stanzas from different senders that advertise the
\* same caps string under the supported hash, the cache holding that key when
\* the second arrives, at most one sends a discovery IQ.
C6_NoQueryWhenCached ==
    [][ (op' = "deliver" /\ caps_key' # NoCall)
        =>
        ( /\ caps_key' \in caps_cache => queries' = <<>>
          /\ ( /\ Resolved
               /\ stanza.from # stanza'.from
               /\ stanza.caps.present /\ stanza.caps.hash = Str("sha-1")
               /\ stanza.caps.str # NULL
               /\ stanza'.caps = stanza.caps
               /\ stanza.caps.str \in caps_cache )
             => Len(queries) + Len(queries') <= 1 ) ]_vars

\* A stanza whose supported-hash caps string is cached: no discovery IQ.
C6_Witness ==
    /\ Resolved
    /\ stanza.caps = Caps(Str("sha-1"), Str("v1"))
    /\ caps_key = Str("v1")
    /\ Str("v1") \in caps_cache
    /\ queries = <<>>

\* C7: the resolver returns NULL when there is no advertisement, the caps
\* string when the hash is the supported one, and the sender's full JID when
\* the hash is unsupported or absent; so two senders with the same caps string
\* under the supported hash get the same key, and two different senders with
\* an unsupported or absent hash get different keys.
C7_KeySelection ==
    [][ (op' = "deliver" /\ caps_key' # NoCall)
        =>
        ( /\ ~stanza'.caps.present => caps_key' = NULL /\ queries' = <<>>
          /\ (stanza'.caps.present /\ stanza'.caps.hash = Str("sha-1"))
                => caps_key' = stanza'.caps.str
          /\ (stanza'.caps.present /\ stanza'.caps.hash # Str("sha-1"))
                => caps_key' = Str(FromAttr(stanza'))
          /\ (Resolved /\ stanza.from # stanza'.from
                /\ stanza.caps.present /\ stanza'.caps.present)
             =>
             ( /\ ( /\ stanza.caps.hash = Str("sha-1") /\ stanza'.caps.hash = Str("sha-1")
                    /\ stanza.caps.str = stanza'.caps.str )
                  => caps_key' = caps_key
               /\ (stanza.caps.hash # Str("sha-1") /\ stanza'.caps.hash # Str("sha-1"))
                  => caps_key' # caps_key ) ) ]_vars

\* A stanza with an unsupported hash: the key is the sender's full JID.
C7_Witness ==
    /\ Resolved
    /\ stanza.caps = Caps(Str("md5"), Str("v1"))
    /\ stanza.from = Jid(Carol, Str("phone"))
    /\ caps_key = Str("carol@example.com/phone")

\* C8: a call of the resolver sends at most one discovery IQ, and sends one
\* exactly when the stanza has an advertisement with a caps string and the
\* key is not cached; the IQ goes to the sender for the advertised node,
\* named "disco" under the supported hash and "disco_" followed by the
\* sender's JID otherwise.
C8_QueryEmission ==
    (op = "deliver" /\ (caps_key # NoCall \/ crashed))
    =>
    /\ Len(queries) <= 1
    /\ Len(queries) = 1 <=>
            ( /\ stanza.caps.present
              /\ stanza.caps.str # NULL
              /\ caps_key \notin caps_cache )
    /\ Len(queries) = 1 =>
            queries[1] =
                [id |-> IF stanza.caps.hash = Str("sha-1")
                        THEN "disco"
                        ELSE "disco_" \o FromAttr(stanza),
                 to |-> FromAttr(stanza),
                 node |-> stanza.caps.str]

\* A legacy advertisement, whose caps string is the text "NULL", from a
\* sender that is not cached: one IQ named after the sender.
C8_Witness ==
    /\ Resolved
    /\ stanza.caps = Caps(NULL, Str("NULL"))
    /\ stanza.from = Jid(Dave, Str("desk"))
    /\ queries = <<[id |-> "disco_dave@example.com/desk",
                    to |-> "dave@example.com/desk", node |-> Str("NULL")]>>

\* C9: a direct subscribe from bare JID J puts J in the pending set and emits
\* one subscription-request for J; a direct subscribed or unsubscribed from J
\* takes J out of it and emits one subscription-resolved notification with J
\* and that kind; no other pending JID is touched, so the list of pending
\* requests holds the JIDs that subscribed and were not resolved, answered by
\* presence_subscription or reset since.
C9_SubscriptionFlow ==
    [][ LET J == stanza'.from.barejid
            pending == PendingJids
            pending_after == PendingJids'
        IN /\ \A list \in presence_get_subscription_requests' :
                    Range(list) = pending_after
           /\ (op' = "deliver" /\ ~stanza'.muc
                    /\ stanza'.type = STANZA_TYPE_SUBSCRIBE)
              => /\ pending_after = pending \cup {J}
                 /\ events' = <<[name |-> "subscription-request", jid |-> J,
                                 kind |-> PRESENCE_SUBSCRIBE]>>
           /\ (op' = "deliver" /\ ~stanza'.muc
                    /\ stanza'.type \in {STANZA_TYPE_SUBSCRIBED,
                                         STANZA_TYPE_UNSUBSCRIBED})
              => /\ pending_after = pending \ {J}
                 /\ events' = <<[name |-> "subscription-resolved", jid |-> J,
                                 kind |-> IF stanza'.type = STANZA_TYPE_SUBSCRIBED
                                          THEN PRESENCE_SUBSCRIBED
                                          ELSE PRESENCE_UNSUBSCRIBED]>>
           /\ op' = "subscription" => pending_after = pending \ {sent'.to}
           /\ op' = "free" => pending_after = {} ]_vars

\* An unsubscribed from dave while carol stays pending.
C9_Witness ==
    /\ op = "deliver"
    /\ stanza.type = STANZA_TYPE_UNSUBSCRIBED
    /\ stanza.from.barejid = Dave
    /\ events = <<[name |-> "subscription-resolved", jid |-> Dave,
                   kind |-> PRESENCE_UNSUBSCRIBED]>>
    /\ presence_get_subscription_requests = {<<Carol>>}

\* C10: the list of pending requests never holds a bare JID twice, and a
\* direct subscribe from a bare JID that is pending already leaves the pending
\* JIDs as they were, the handler running to its end.
C10_RecordRequestIdempotent ==
    [][ LET J == stanza'.from.barejid
        IN /\ \A list \in presence_get_subscription_requests' :
                \A i, j \in 1..Len(list) : list[i] = list[j] => i = j
           /\ ( /\ op' = "deliver" /\ ~stanza'.muc
                /\ stanza'.type = STANZA_TYPE_SUBSCRIBE
                /\ J \in PendingJids )
              => /\ PendingJids' = PendingJids
                 /\ \A list \in presence_get_subscription_requests' :
                        Len(list) = Cardinality(PendingJids)
                 /\ ~crashed' ]_vars

\* A second subscribe from dave, from another resource, dave pending once.
C10_Witness ==
    /\ op = "deliver"
    /\ stanza.type = STANZA_TYPE_SUBSCRIBE
    /\ stanza.from = Jid(Dave, Str("desk"))
    /\ sent = NoSent
    /\ Dave \in DOMAIN sub_before
    /\ presence_get_subscription_requests = {<<Carol, Dave>>, <<Dave, Carol>>}

\* C11: a stanza of type error, with or without the multi-user-chat
\* extension, emits no notification and sends no discovery IQ, and leaves the
\* room registry (roster_received, occupants, pending nick changes) and the
\* pending subscription table as they were; the handlers run to their end.
C11_ErrorTerminal ==
    [][ (op' = "deliver" /\ stanza'.type = STANZA_TYPE_ERROR)
        =>
        ( /\ events' = <<>>
          /\ queries' = <<>>
          /\ caps_key' = NoCall
          /\ rooms' = rooms
          /\ sub_requests' = sub_requests
          /\ ~crashed' ) ]_vars

\* An error stanza of a room member, with an advertisement that has no caps
\* string, in a joined room while a subscription request is pending: nothing
\* is emitted.
C11_Witness ==
    /\ op = "deliver"
    /\ stanza.type = STANZA_TYPE_ERROR
    /\ stanza.muc /\ ~stanza.self
    /\ stanza.caps = BadCaps
    /\ rooms[stanza.from.barejid].joined
    /\ sub_requests # EmptyTable
    /\ sub_before = sub_requests
    /\ events = <<>> /\ queries = <<>>
    /\ ~crashed

\* C16: a direct subscribed or unsubscribed from a bare JID that is not
\* pending leaves the pending subscription table as it was, and the handler
\* runs to its end.
C16_ResolveAbsentNoOp ==
    ( /\ op = "deliver" /\ ~stanza.muc
      /\ stanza.type \in {STANZA_TYPE_SUBSCRIBED, STANZA_TYPE_UNSUBSCRIBED}
      /\ ~g_hash_table_contains(sub_before, stanza.from.barejid) )
    => (sub_requests = sub_before /\ ~crashed)

\* A subscribed from dave, who was not pending, while carol is: carol stays.
C16_Witness ==
    /\ op = "deliver" /\ ~stanza.muc
    /\ stanza.type = STANZA_TYPE_SUBSCRIBED
    /\ stanza.from.barejid = Dave
    /\ ~g_hash_table_contains(sub_before, Dave)
    /\ g_hash_table_get_keys(sub_before) = {<<Carol>>}
    /\ sub_requests = sub_before
    /\ ~crashed

\* The show a stanza stands for: the text of its show child, "online" when
\* the child is missing.
ShowText(st) == IF st.show.present THEN st.show.text ELSE Str("online")

\* The status of a stanza: the text of its status child, NULL when the child
\* is missing.
StatusText(st) == IF st.status.present THEN st.status.text ELSE NULL

\* The notifications of member presence among es, in order.
RoomMemberEvents(es) ==
    SelectSeq(es, LAMBDA e : e.name \in {"room-member-online",
                                         "room-member-offline",
                                         "room-member-presence-updated",
                                         "room-member-nickname-changed"})

\* C12 as stated: an available member stanza for nick in a room whose roster
\* has been received and that has no pending nick change to nick emits, when
\* nick is not an occupant, exactly room-member-online(room, nick, show,
\* status, key) and nick is an occupant afterwards, and when nick is an
\* occupant, exactly room-member-presence-updated with the same fields; show
\* is "online" when the stanza has none.
C12_MemberOnlineOrUpdated ==
    [][ LET st == stanza'
            r == st.from.barejid
            nick == st.from.resourcepart
            Fields(name) ==
                [name |-> name, room |-> r, nick |-> nick,
                 show |-> ShowText(st), status |-> StatusText(st),
                 caps_key |-> caps_key']
        IN ( /\ op' = "deliver"
             /\ st.muc /\ ~st.self /\ st.type = NULL
             /\ rooms[r].roster_received
             /\ ~( /\ rooms[r].pending_nick_change.set
                   /\ rooms[r].pending_nick_change.new_nick = nick ) )
           =>
           IF nick \notin DOMAIN rooms[r].occupants
           THEN /\ events' = <<Fields("room-member-online")>>
                /\ nick \in DOMAIN rooms'[r].occupants
           ELSE events' = <<Fields("room-member-presence-updated")>> ]_vars

\* C13 as stated: an unavailable member stanza without the nick-change marker
\* emits, of the member notifications, exactly room-member-offline(room,
\* nick, "offline", status); with the marker it emits no room-member-offline
\* and records the pending nick change {old_nick = the sender's nick,
\* new_nick = the marker's nick} for the room.
C13_MemberUnavailable ==
    [][ LET st == stanza'
            r == st.from.barejid
            nick == st.from.resourcepart
        IN ( /\ op' = "deliver"
             /\ st.muc /\ ~st.self /\ st.type = STANZA_TYPE_UNAVAILABLE )
           =>
           IF ~st.nick_change
           THEN RoomMemberEvents(events') =
                    <<[name |-> "room-member-offline", room |-> r,
                       nick |-> nick, show |-> Str("offline"),
                       status |-> StatusText(st)]>>
           ELSE /\ RoomMemberEvents(events') = <<>>
                /\ rooms'[r].pending_nick_change =
                        [set |-> TRUE, old_nick |-> nick,
                         new_nick |-> st.new_nick] ]_vars

\* C15 as stated: while the pending nick change of a room names old nick N
\* and a stanza leaves that record as it is, the stanza emits no
\* room-member-online for N and does not make N an occupant.
C15_PendingOldNickNotReused ==
    [][ \A r \in Rooms :
          LET p == rooms[r].pending_nick_change
          IN ( /\ op' = "deliver"
               /\ rooms[r].joined /\ p.set
               /\ rooms'[r].joined /\ rooms'[r].pending_nick_change = p )
             =>
             /\ \A i \in 1..Len(events') :
                    ~( /\ events'[i].name = "room-member-online"
                       /\ events'[i].room = r
                       /\ events'[i].nick = p.old_nick )
             /\ p.old_nick \in DOMAIN rooms'[r].occupants
                    => p.old_nick \in DOMAIN rooms[r].occupants ]_vars

\* C19 as stated: an available member stanza handled while roster_received
\* is false emits no notification and leaves the occupant entry of its nick
\* holding the stanza's show ("online" when absent), status and capability
\* key; an available self-presence handled while roster_received is false and
\* no self nick change is pending emits the one room-roster-complete.
C19_BurstSilent ==
    [][ LET st == stanza'
            r == st.from.barejid
            nick == st.from.resourcepart
        IN ( /\ op' = "deliver"
             /\ st.muc /\ st.type = NULL
             /\ ~rooms[r].roster_received )
           =>
           IF st.self
           THEN ~rooms[r].self_pending_nick_change
                    => events' = <<[name |-> "room-roster-complete", room |-> r]>>
           ELSE /\ events' = <<>>
                /\ ~rooms'[r].roster_received
                /\ nick \in DOMAIN rooms'[r].occupants
                /\ rooms'[r].occupants[nick] =
                        [show |-> ShowText(st), status |-> StatusText(st),
                         caps_key |-> caps_key'] ]_vars

\* The text is an optional sign followed by digits and nothing else.
IsNumber(text) ==
    LET start == IF text # <<>> /\ text[1] \in {"-", "+"} THEN 2 ELSE 1
    IN /\ start <= Len(text)
       /\ \A i \in start..Len(text) : IsDigit(text[i])

\* The number a text that IsNumber stands for, when it has at most nine
\* characters (every such number is an int).
NumberValue(text) ==
    IF text[1] = "-"
    THEN 0 - atoi_digits(text, 2, 0)
    ELSE atoi_digits(text, IF text[1] = "+" THEN 2 ELSE 1, 0)

\* p is the priority a priority child stands for: the number its text is,
\* 0 when the child is missing or its text is no number.
PriorityIs(child, p) ==
    IF child.present /\ child.text # NULL /\ IsNumber(child.text[1])
    THEN /\ Len(child.text[1]) <= 9
         /\ p = NumberValue(child.text[1])
    ELSE p = 0

\* C14 as stated: an available direct stanza from another bare JID emits
\* exactly one contact-online whose resource has the sender's resource part
\* as name, the show text or "online" as kind, the status text or NULL, and
\* as priority the number of the priority child, 0 when the child is absent
\* or its text is no number; a last-activity time goes with it exactly when
\* the idle time is above 0.
C14_DirectOnlineDefaults ==
    ( /\ op = "deliver" /\ ~stanza.muc /\ stanza.type = NULL
      /\ stanza.from.barejid # MyJid.barejid )
    =>
    /\ Len(events) = 1
    /\ events[1].name = "contact-online"
    /\ PriorityIs(stanza.priority, events[1].resource.priority)
    /\ events[1] =
          [name |-> "contact-online",
           jid |-> stanza.from.barejid,
           resource |->
               [name |-> stanza.from.resourcepart,
                presence |-> IF stanza.show.present /\ stanza.show.text # NULL
                             THEN stanza.show.text[1]
                             ELSE "online",
                status |-> StatusText(stanza),
                priority |-> events[1].resource.priority,
                caps_key |-> caps_key],
           last_activity |-> IF stanza.idle > 0
                             THEN [set |-> TRUE, ago |-> stanza.idle]
                             ELSE [set |-> FALSE, ago |-> 0]]

\* C17: an unavailable self-presence with the nick-change marker sets
\* self_pending_nick_change, emits no room-left and leaves the room joined or
\* not as it was; without the marker it emits exactly one room-left for the
\* room and does not set self_pending_nick_change.
C17_SelfUnavailable ==
    [][ LET st == stanza'
            r == st.from.barejid
            left == {i \in 1..Len(events') : events'[i].name = "room-left"}
        IN ( /\ op' = "deliver"
             /\ st.muc /\ st.self /\ st.type = STANZA_TYPE_UNAVAILABLE )
           =>
           IF st.nick_change
           THEN /\ rooms'[r].self_pending_nick_change
                /\ rooms'[r].joined = rooms[r].joined
                /\ left = {}
           ELSE /\ Cardinality(left) = 1
                /\ \A i \in left : events'[i].room = r
                /\ ~rooms'[r].self_pending_nick_change ]_vars

\* An unavailable self-presence with the nick-change marker in a room whose
\* roster is complete: the rename is pending and the room has not been left.
C17_Witness ==
    /\ op = "deliver"
    /\ stanza.muc /\ stanza.self
    /\ stanza.type = STANZA_TYPE_UNAVAILABLE /\ stanza.nick_change
    /\ rooms[stanza.from.barejid].joined
    /\ rooms[stanza.from.barejid].roster_received
    /\ rooms[stanza.from.barejid].self_pending_nick_change
    /\ CountEvents(events, {"room-left"}) = 0

\* C18: an available self-presence handled while self_pending_nick_change is
\* true makes its nick the user's nick in the room, clears the flag and emits
\* exactly room-nickname-changed(room, nick), whatever roster_received is;
\* it emits no room-roster-complete and leaves roster_received as it was.
C18_SelfRenamePrecedence ==
    [][ LET st == stanza'
            r == st.from.barejid
            nick == st.from.resourcepart
        IN ( /\ op' = "deliver"
             /\ st.muc /\ st.self /\ st.type = NULL
             /\ rooms[r].self_pending_nick_change )
           =>
           /\ events' = <<[name |-> "room-nickname-changed", room |-> r,
                           nick |-> nick]>>
           /\ rooms'[r].nick = nick
           /\ ~rooms'[r].self_pending_nick_change
           /\ rooms'[r].roster_received = rooms[r].roster_received ]_vars

\* The rename to "alice2" applied in a room whose roster is not complete.
C18_Witness ==
    /\ op = "deliver"
    /\ stanza.muc /\ stanza.self /\ stanza.type = NULL
    /\ stanza.from = Jid(Room, Str("alice2"))
    /\ events = <<[name |-> "room-nickname-changed", room |-> Room,
                   nick |-> Str("alice2")]>>
    /\ rooms[Room].nick = Str("alice2")
    /\ ~rooms[Room].self_pending_nick_change
    /\ ~rooms[Room].roster_received
    /\ hist[Room].roster_complete = 0

\* C20 as stated: an available stanza whose advertisement has the supported
\* hash and no caps string is handled to the end: the resolver returns NULL
\* and sends no discovery IQ, and the handler emits its contact-online (direct
\* presence) or records the occupant (member presence of the initial burst).
C20_NoVerHandled ==
    ( /\ op = "deliver" /\ stanza.type = NULL
      /\ stanza.caps.present /\ stanza.caps.hash = Str("sha-1")
      /\ stanza.caps.str = NULL )
    =>
    /\ ~crashed
    /\ caps_key = NULL
    /\ queries = <<>>
    /\ IF stanza.muc
       THEN stanza.from.resourcepart
                \in DOMAIN rooms[stanza.from.barejid].occupants
       ELSE CountEvents(events, {"contact-online"}) = 1

\* C23: an available self-presence for a room whose roster_received is true
\* and whose self_pending_nick_change is false emits no notification, sends
\* no discovery IQ and leaves the room registry as it was.
C23_SteadySelfPresenceNoOp ==
    [][ LET st == stanza'
            r == st.from.barejid
        IN ( /\ op' = "deliver"
             /\ st.muc /\ st.self /\ st.type = NULL
             /\ rooms[r].roster_received
             /\ ~rooms[r].self_pending_nick_change )
           =>
           /\ events' = <<>>
           /\ queries' = <<>>
           /\ caps_key' = NoCall
           /\ rooms' = rooms
           /\ ~crashed' ]_vars

\* A steady-state self-presence from another nick than the user's, with an
\* advertisement that has no caps string: nothing is emitted or changed.
C23_Witness ==
    /\ op = "deliver"
    /\ stanza.muc /\ stanza.self /\ stanza.type = NULL
    /\ stanza.caps = BadCaps
    /\ stanza.from.resourcepart # rooms[stanza.from.barejid].nick
    /\ rooms[stanza.from.barejid].joined
    /\ rooms[stanza.from.barejid].roster_received
    /\ ~rooms[stanza.from.barejid].self_pending_nick_change
    /\ events = <<>> /\ queries = <<>> /\ caps_key = NoCall
    /\ ~crashed

\* C26: presence_subscription(jid, action) leaves the pending table without
\* the entry of the bare JID of jid and with every other entry, whatever the
\* action, and the stanza it sends is addressed to that bare JID;
\* presence_free_sub_requests leaves the table empty.
C26_OutboundSubscriptionClears ==
    /\ op = "subscription"
            => /\ sub_requests =
                      [k \in DOMAIN sub_before \ {sent.to} |-> sub_before[k]]
               /\ ~g_hash_table_contains(sub_requests, sent.to)
    /\ op = "free" => sub_requests = EmptyTable

\* An unknown action for dave, who was pending with carol: the stanza has no
\* type, dave is gone and carol stays.
C26_Witness ==
    /\ op = "subscription"
    /\ sent = [type |-> NULL, to |-> Dave]
    /\ g_hash_table_get_keys(sub_before) = {<<Carol, Dave>>, <<Dave, Carol>>}
    /\ g_hash_table_get_keys(sub_requests) = {<<Carol>>}

\* The key the resolver looks up for a stanza with an advertisement: the caps
\* string under the supported hash, the sender's full JID otherwise.
AdvertisedKey(st) ==
    IF st.caps.hash = Str("sha-1") THEN st.caps.str ELSE Str(FromAttr(st))

\* The stanza has an advertisement with a caps string whose key is not in
\* cache.
CacheMiss(st, cache) ==
    /\ st.caps.present
    /\ st.caps.str # NULL
    /\ AdvertisedKey(st) \notin cache

\* C24: an available direct stanza whose sender has the local bare JID and
\* whose advertisement has a caps string and a key that is not cached sends
\* one discovery IQ to the sender for the advertised node, and emits no
\* contact-online (no notification at all).
C24_SelfPresenceStillQueries ==
    ( /\ op = "deliver" /\ ~stanza.muc /\ stanza.type = NULL
      /\ stanza.from.barejid = MyJid.barejid
      /\ CacheMiss(stanza, caps_cache) )
    =>
    /\ Len(queries) = 1
    /\ queries[1].to = FromAttr(stanza)
    /\ queries[1].node = stanza.caps.str
    /\ caps_key = AdvertisedKey(stanza)
    /\ events = <<>>

\* Presence of the local account's other resource advertising "v1", which is
\* not cached: the IQ goes out and nothing is notified.
C24_Witness ==
    /\ op = "deliver" /\ ~stanza.muc /\ stanza.type = NULL
    /\ stanza.from = Jid(MyJid.barejid, Str("tablet"))
    /\ stanza.caps = GoodCaps
    /\ Str("v1") \notin caps_cache
    /\ queries = <<[id |-> "disco", to |-> "me@example.com/tablet",
                    node |-> Str("v1")]>>
    /\ events = <<>>

\* C25: handling a stanza never changes the capability cache, and a stanza
\* sends one discovery IQ when it is a cache miss and none otherwise, so the
\* IQs sent are as many as the cache-miss stanzas; in particular of two
\* stanzas in a row that advertise the same key, the cache not holding it,
\* each sends its IQ.
C25_QueryPerCacheMiss ==
    [][ op' = "deliver"
        =>
        /\ caps_cache' = caps_cache
        /\ Len(queries') = IF CacheMiss(stanza', caps_cache) THEN 1 ELSE 0
        /\ ( /\ op = "deliver"
             /\ CacheMiss(stanza, caps_cache)
             /\ CacheMiss(stanza', caps_cache)
             /\ AdvertisedKey(stanza) = AdvertisedKey(stanza') )
           => (Len(queries) = 1 /\ Len(queries') = 1) ]_vars

\* dave advertises "v1" after the room member alice did (her occupant entry
\* holds the key) and "v1" is still not cached: dave's stanza sends its IQ.
C25_Witness ==
    /\ op = "deliver"
    /\ stanza.from = Jid(Dave, Str("desk"))
    /\ stanza.caps = GoodCaps
    /\ Str("v1") \notin caps_cache
    /\ rooms[Room].joined
    /\ Str("alice") \in DOMAIN rooms[Room].occupants
    /\ rooms[Room].occupants[Str("alice")].caps_key = Str("v1")
    /\ queries = <<[id |-> "disco", to |-> "dave@example.com/desk",
                    node |-> Str("v1")]>>

\* C21 as stated: a recorded pending nick change of a member stays as
\* recorded across every stanza for its room other than an available member
\* stanza from its new nick handled while roster_received is true.
C21_PendingNickChangeStaysAlways ==
    [][ \A r \in Rooms :
          LET p == rooms[r].pending_nick_change
              st == stanza'
              for_room == op' = "deliver" /\ st.muc /\ st.from.barejid = r
              matching == /\ ~st.self /\ st.type = NULL
                          /\ st.from.resourcepart = p.new_nick
                          /\ rooms[r].roster_received
          IN (p.set /\ for_room /\ ~matching)
             => rooms'[r].pending_nick_change = p ]_vars

\* C21 as amended: a recorded pending nick change of a member stays as
\* recorded across every step that is not a join, but for three stanzas for
\* its room: an available member stanza from its new nick handled while
\* roster_received is true; an unavailable member stanza with the nick-change
\* marker, after which a record is still set, the old one or the stanza's
\* own {sender's nick, marker's nick}; and an unavailable self-presence
\* without the marker, which leaves the room and tears its record down.
C21_PendingNickChangeStays ==
    [][ \A r \in Rooms :
          LET p == rooms[r].pending_nick_change
              st == stanza'
              for_room == op' = "deliver" /\ st.muc /\ st.from.barejid = r
              matching == /\ for_room
                          /\ ~st.self /\ st.type = NULL
                          /\ st.from.resourcepart = p.new_nick
                          /\ rooms[r].roster_received
              marker == /\ for_room
                        /\ ~st.self /\ st.type = STANZA_TYPE_UNAVAILABLE
                        /\ st.nick_change
              leave == /\ for_room
                       /\ st.self /\ st.type = STANZA_TYPE_UNAVAILABLE
                       /\ ~st.nick_change
          IN ( /\ p.set
               /\ op' # "join"
               /\ ~matching )
             =>
             CASE marker ->
                    /\ rooms'[r].pending_nick_change.set
                    /\ rooms'[r].pending_nick_change
                            \in {p, [set |-> TRUE,
                                     old_nick |-> st.from.resourcepart,
                                     new_nick |-> st.new_nick]}
               [] leave -> ~rooms'[r].pending_nick_change.set
               [] OTHER -> rooms'[r].pending_nick_change = p ]_vars

\* The member stanza from the new nick "alice2" handled during the initial
\* burst: the occupant is recorded and the nick change is still pending.
C21_Witness ==
    /\ op = "deliver"
    /\ stanza.muc /\ ~stanza.self /\ stanza.type = NULL
    /\ stanza.from = Jid(Room, Str("alice2"))
    /\ rooms[Room].joined
    /\ ~rooms[Room].roster_received
    /\ rooms[Room].pending_nick_change =
            [set |-> TRUE, old_nick |-> Str("alice"),
             new_nick |-> Str("alice2")]
    /\ Str("alice2") \in DOMAIN rooms[Room].occupants
    /\ events = <<>>
    /\ ~crashed

\* The state the handlers start from in the current state, the outcome of
\* undefined behaviour being ub.
HandlerState(ub) ==
    [sub_requests |-> sub_requests, rooms |-> rooms, caps_cache |-> caps_cache,
     events |-> <<>>, queries |-> <<>>, caps_key |-> NoCall,
     crashed |-> crashed, ub |-> ub]

\* The state after stanza st has arrived in state s, with the notifications
\* and IQs of st alone: a process that has died handles nothing.
HandleStanza(s, st) ==
    LET s0 == [s EXCEPT !.events = <<>>, !.queries = <<>>, !.caps_key = NoCall]
    IN IF s.crashed THEN s0 ELSE FireHandlers(s0, st, 1)

\* C22 as stated: in every state, a stanza of a joined room leaves the
\* records of the other rooms as they are, and two stanzas of two different
\* joined rooms handled in either order leave the same room registry behind
\* and emit, each of them, the same notifications in both orders.
C22_RoomsIndependent ==
    ~crashed =>
    \A a \in RoomsStanzas :
        rooms[a.from.barejid].joined =>
        /\ \A ub \in Outcomes(a) :
              \A r \in Rooms \ {a.from.barejid} :
                 HandleStanza(HandlerState(ub), a).rooms[r] = rooms[r]
        /\ \A b \in RoomsStanzas :
              (b.from.barejid # a.from.barejid /\ rooms[b.from.barejid].joined)
              =>
              \A ub \in Outcomes(a) \cup Outcomes(b) :
                 LET s0 == HandlerState(ub)
                     sa == HandleStanza(s0, a)
                     sb == HandleStanza(s0, b)
                     sab == HandleStanza(sa, b)
                     sba == HandleStanza(sb, a)
                 IN /\ sab.rooms = sba.rooms
                    /\ sba.events = sa.events
                    /\ sab.events = sb.events

====
